---- MODULE Spec2Model ----
(***************************************************************************)
(* The ticket store ABCI application (ticketstore/ticketstore.go): the     *)
(* state of TicketStoreApplication, its callbacks DeliverTx, CheckTx,      *)
(* Commit, Query and Info, the validator and the historical ticket query.  *)
(*                                                                         *)
(* Strings and byte strings are modelled symbolically.  A hash is a        *)
(* sequence of naturals that spells out what was hashed (Keccak-256 and    *)
(* the tree's hash are taken to be collision free); a signature names the  *)
(* key that made it, the digest it was made over and its v byte.           *)
(***************************************************************************)
EXTENDS Integers, Sequences, FiniteSets, TLC

VARIABLES state, last, delivered, replica, writer

vars == <<state, last, delivered, replica, writer>>

(***************************************************************************)
(* Bounds of the model.                                                    *)
(***************************************************************************)
MaxNonce == 3
MaxSize == 3
MaxHeight == 2

(***************************************************************************)
(* Response codes.                                                         *)
(***************************************************************************)
codeTypeOK == 0
codeTypeEncodingError == 1
codeTypeTicketError == 2

ErrNone == "nil"
ErrBadAddress == "Ticket must have an address"
ErrBadNonce == "Ticket nonce must increase on resale"
ErrBadSignature == "Resale must be signed by the previous owner"
ErrTicketNotFound == "Ticket could not be found"
\* errors of the libraries that validate passes on unchanged
ErrHexDecode == "hexutil: invalid hex string"
ErrSigRecover == "secp256k1: recovery failed"
ErrJson == "json: cannot unmarshal"
ErrParse == "strconv: invalid syntax"

(***************************************************************************)
(* Keys and addresses.  Key k has the address AddrHex(k), which            *)
(* Address.Hex() renders in mixed case; ToLower folds it.                  *)
(***************************************************************************)
Keys == {1, 2}
JunkKey == 9

AddrHex(k) == IF k = 1 THEN "0xA1" ELSE IF k = 2 THEN "0xB2" ELSE "0xEE"

ToLower(s) ==
    IF s = "0xA1" THEN "0xa1"
    ELSE IF s = "0xB2" THEN "0xb2"
    ELSE IF s = "0xEE" THEN "0xee"
    ELSE s

\* The 20 bytes common.HexToAddress reads from an ownerAddr string: hex
\* digits in either case give the same bytes, anything else gives zeroes.
AddrBytes(s) ==
    IF ToLower(s) = "0xa1" THEN 1
    ELSE IF ToLower(s) = "0xb2" THEN 2
    ELSE IF ToLower(s) = "0xee" THEN JunkKey
    ELSE 0

(***************************************************************************)
(* prevOwnerProof strings.  enc tells what hexutil.Decode makes of the     *)
(* string: "empty" is "", "badhex" has no 0x prefix or a non-hex digit,    *)
(* "hex" decodes to n bytes.  A 65 byte string is (r, s, v): r and s were  *)
(* made by key signer over digest msg (signer 0: by nobody), v is byte 64. *)
(***************************************************************************)
Proof(enc, n, signer, v, msg) ==
    [enc |-> enc, n |-> n, signer |-> signer, v |-> v, msg |-> msg]

EmptyProof == Proof("empty", 0, 0, 0, << >>)
Proof0x == Proof("hex", 0, 0, 0, << >>)
BadHexProof == Proof("badhex", 0, 0, 0, << >>)
LongProof == Proof("hex", 66, 0, 27, << >>)
ForgedProof == Proof("hex", 65, 0, 27, << >>)

\* The recovery id of the signature key k makes, and the v byte of the
\* Ethereum convention for it.
RecId(k) == k % 2
EthV(k) == 27 + RecId(k)

SigProof(k, v, msg) == Proof("hex", 65, k, v, msg)
Sign(k, msg) == SigProof(k, EthV(k), msg)

(***************************************************************************)
(* Ticket transactions.                                                    *)
(***************************************************************************)
Ids == {0, 1}
Owners == {"", "0xa1", "0xB2", "zz"}
TheDetails == "ticket"

Tx(id, nonce, owner, proof) ==
    [Id |-> id, Nonce |-> nonce, Details |-> TheDetails,
     OwnerAddr |-> owner, PrevOwnerProof |-> proof]

ZeroTx ==
    [Id |-> 0, Nonce |-> 0, Details |-> "", OwnerAddr |-> "",
     PrevOwnerProof |-> EmptyProof]

ZeroTicket == [TicketTx |-> ZeroTx, ChangeHeights |-> << >>]

\* The bytes of a details string.
StringBytes(s) == IF s = "" THEN 0 ELSE 1

\* The bytes the "bytes" argument of SoliditySHA3 packs for a proof string.
ProofBytes(p) ==
    IF p.enc = "hex" THEN <<p.n, p.signer, p.v>> \o p.msg ELSE <<0, 0, 0>>

CalculateHash(ticket) ==
    <<1, ticket.Id, ticket.Nonce, StringBytes(ticket.Details),
      AddrBytes(ticket.OwnerAddr)>>
        \o ProofBytes(ticket.PrevOwnerProof)

(***************************************************************************)
(* The validator.                                                          *)
(***************************************************************************)
\* crypto.SigToPub(hash, sig) followed by PubkeyToAddress(..).Hex(): the
\* signature must be 65 bytes with a recovery id below 4; (r, s) with the
\* recovery id its signer made recovers the signer's key when the digest is
\* the one that was signed, and some unrelated key otherwise.
SigToPub(hash, n, signer, recid, msg) ==
    IF n # 65 \/ recid >= 2
    THEN [key |-> 0, err |-> ErrSigRecover]
    ELSE IF signer \in Keys /\ msg = hash /\ recid = RecId(signer)
    THEN [key |-> signer, err |-> ErrNone]
    ELSE [key |-> JunkKey, err |-> ErrNone]

\* A faulty variant: byte 64 is handed on as it came, without the - 27.
getOwnerProofSigner_NoNormalise(ticket, prevTicketHash) ==
    LET p == ticket.PrevOwnerProof IN
    IF p.enc # "hex"
    THEN [signer |-> "", err |-> ErrHexDecode, panic |-> FALSE]
    ELSE IF p.n < 65
    THEN [signer |-> "", err |-> ErrNone, panic |-> TRUE]
    ELSE LET pub == SigToPub(prevTicketHash, p.n, p.signer, p.v, p.msg) IN
         IF pub.err # ErrNone
         THEN [signer |-> "", err |-> pub.err, panic |-> FALSE]
         ELSE [signer |-> ToLower(AddrHex(pub.key)), err |-> ErrNone, panic |-> FALSE]

getOwnerProofSigner(ticket, prevTicketHash) ==
    LET p == ticket.PrevOwnerProof IN
    IF p.enc # "hex"
    THEN [signer |-> "", err |-> ErrHexDecode, panic |-> FALSE]
    ELSE IF p.n < 65
    THEN [signer |-> "", err |-> ErrNone, panic |-> TRUE]    \* bytesProof[64]
    ELSE LET pub == SigToPub(prevTicketHash, p.n, p.signer, (p.v + 256 - 27) % 256, p.msg) IN
         IF pub.err # ErrNone
         THEN [signer |-> "", err |-> pub.err, panic |-> FALSE]
         ELSE [signer |-> ToLower(AddrHex(pub.key)), err |-> ErrNone, panic |-> FALSE]

\* A faulty variant: any signature that recovers a key is taken.
validate_NoSignerCheck(ticket, prevTicket) ==
    IF ticket.OwnerAddr = ""
    THEN [err |-> ErrBadAddress, panic |-> FALSE]
    ELSE IF ticket.Nonce <= prevTicket.Nonce
    THEN [err |-> ErrBadNonce, panic |-> FALSE]
    ELSE IF prevTicket.OwnerAddr # ""
    THEN LET s == getOwnerProofSigner(ticket, CalculateHash(prevTicket)) IN
         [err |-> s.err, panic |-> s.panic]
    ELSE [err |-> ErrNone, panic |-> FALSE]

\* A faulty variant: a nonce equal to the recorded one passes.
validate_NonceLess(ticket, prevTicket) ==
    IF ticket.OwnerAddr = ""
    THEN [err |-> ErrBadAddress, panic |-> FALSE]
    ELSE IF ticket.Nonce < prevTicket.Nonce
    THEN [err |-> ErrBadNonce, panic |-> FALSE]
    ELSE IF prevTicket.OwnerAddr # ""
    THEN LET s == getOwnerProofSigner(ticket, CalculateHash(prevTicket)) IN
         IF s.panic \/ s.err # ErrNone
         THEN [err |-> s.err, panic |-> s.panic]
         ELSE IF s.signer # ToLower(prevTicket.OwnerAddr)
         THEN [err |-> ErrBadSignature, panic |-> FALSE]
         ELSE [err |-> ErrNone, panic |-> FALSE]
    ELSE [err |-> ErrNone, panic |-> FALSE]

\* A faulty variant: the nonce is checked before the address.
validate_NonceFirst(ticket, prevTicket) ==
    IF ticket.Nonce <= prevTicket.Nonce
    THEN [err |-> ErrBadNonce, panic |-> FALSE]
    ELSE IF ticket.OwnerAddr = ""
    THEN [err |-> ErrBadAddress, panic |-> FALSE]
    ELSE IF prevTicket.OwnerAddr # ""
    THEN LET s == getOwnerProofSigner(ticket, CalculateHash(prevTicket)) IN
         IF s.panic \/ s.err # ErrNone
         THEN [err |-> s.err, panic |-> s.panic]
         ELSE IF s.signer # ToLower(prevTicket.OwnerAddr)
         THEN [err |-> ErrBadSignature, panic |-> FALSE]
         ELSE [err |-> ErrNone, panic |-> FALSE]
    ELSE [err |-> ErrNone, panic |-> FALSE]

validate(ticket, prevTicket) ==
    IF ticket.OwnerAddr = ""
    THEN [err |-> ErrBadAddress, panic |-> FALSE]
    ELSE IF ticket.Nonce <= prevTicket.Nonce
    THEN [err |-> ErrBadNonce, panic |-> FALSE]
    ELSE IF prevTicket.OwnerAddr # ""
    THEN LET s == getOwnerProofSigner(ticket, CalculateHash(prevTicket)) IN
         IF s.panic \/ s.err # ErrNone
         THEN [err |-> s.err, panic |-> s.panic]
         ELSE IF s.signer # ToLower(prevTicket.OwnerAddr)
         THEN [err |-> ErrBadSignature, panic |-> FALSE]
         ELSE [err |-> ErrNone, panic |-> FALSE]
    ELSE [err |-> ErrNone, panic |-> FALSE]

(***************************************************************************)
(* The Merkle tree of github.com/cbergoon/merkletree, as the application   *)
(* uses it: NewTree hashes each content into a leaf, repeats the last leaf *)
(* when their number is odd and pairs the nodes level by level, the last   *)
(* node of an odd level with itself.                                       *)
(***************************************************************************)
HashPair(l, r) == <<2, Len(l)>> \o l \o r

Leaf(c) == [C |-> c, Hash |-> CalculateHash(c)]

BuildLeafs(cs) ==
    LET leafs == [i \in 1..Len(cs) |-> Leaf(cs[i])] IN
    IF Len(cs) % 2 = 1 THEN Append(leafs, leafs[Len(cs)]) ELSE leafs

NextLevel(nl) ==
    [p \in 1..((Len(nl) + 1) \div 2) |->
        HashPair(nl[2 * p - 1], IF 2 * p <= Len(nl) THEN nl[2 * p] ELSE nl[2 * p - 1])]

RECURSIVE BuildIntermediate(_)
BuildIntermediate(nl) ==
    IF Len(nl) = 2 THEN HashPair(nl[1], nl[2]) ELSE BuildIntermediate(NextLevel(nl))

ZeroTree == [Leafs |-> << >>, Root |-> << >>]

NewTree(cs) ==
    LET leafs == BuildLeafs(cs) IN
    [Leafs |-> leafs,
     Root |-> BuildIntermediate([i \in 1..Len(leafs) |-> leafs[i].Hash])]

\* The walk of GetMerklePath from node i of level nl up to the root: the
\* sibling is the parent's right child when the parent's left child has the
\* node's hash, and its left child otherwise.
RECURSIVE PathFrom(_, _)
PathFrom(nl, i) ==
    LET p == (i + 1) \div 2
        left == nl[2 * p - 1]
        right == IF 2 * p <= Len(nl) THEN nl[2 * p] ELSE nl[2 * p - 1]
        step == IF left = nl[i] THEN [hash |-> right, index |-> 1]
                                ELSE [hash |-> left, index |-> 0]
    IN IF Len(nl) = 2 THEN <<step>> ELSE <<step>> \o PathFrom(NextLevel(nl), p)

GetMerklePath(tree, content) ==
    LET found == {i \in 1..Len(tree.Leafs) : tree.Leafs[i].C = content} IN
    IF found = {}
    THEN [path |-> << >>, index |-> << >>, err |-> ErrNone]
    ELSE LET i == CHOOSE j \in found : \A k \in found : j <= k
             steps == PathFrom([k \in 1..Len(tree.Leafs) |-> tree.Leafs[k].Hash], i)
         IN [path |-> [k \in 1..Len(steps) |-> steps[k].hash],
             index |-> [k \in 1..Len(steps) |-> steps[k].index],
             err |-> ErrNone]

(***************************************************************************)
(* The application state and its callbacks.                                *)
(***************************************************************************)
\* A map read: the zero value when the key is absent.
Lookup(m, k, zero) == IF k \in DOMAIN m THEN m[k] ELSE zero

Put(m, k, v) == [x \in DOMAIN m \cup {k} |-> IF x = k THEN v ELSE m[x]]

ZeroSnapshot == [tickets |-> << >>, tree |-> ZeroTree]

NewTicketStoreApplication ==
    [size |-> 0, height |-> 0, rootHash |-> << >>, tickets |-> << >>,
     history |-> << >>, tempTreeContent |-> << >>]

\* A transaction on the wire: bytes that are no JSON object of the right
\* types, or an object, some of whose fields may be absent.  json.Unmarshal
\* leaves an absent field at its zero value.
FieldNames == {"id", "nonce", "details", "ownerAddr", "prevOwnerProof"}

Wire(tx, absent) == [malformed |-> FALSE, tx |-> tx, absent |-> absent]

Malformed == [malformed |-> TRUE, tx |-> ZeroTx, absent |-> {}]

Unmarshal(w) ==
    IF w.malformed
    THEN [err |-> ErrJson, ticketTx |-> ZeroTx]
    ELSE [err |-> ErrNone,
          ticketTx |->
            [Id |-> IF "id" \in w.absent THEN 0 ELSE w.tx.Id,
             Nonce |-> IF "nonce" \in w.absent THEN 0 ELSE w.tx.Nonce,
             Details |-> IF "details" \in w.absent THEN "" ELSE w.tx.Details,
             OwnerAddr |-> IF "ownerAddr" \in w.absent THEN "" ELSE w.tx.OwnerAddr,
             PrevOwnerProof |-> IF "prevOwnerProof" \in w.absent THEN EmptyProof
                                ELSE w.tx.PrevOwnerProof]]

Response(code, log) == [code |-> code, log |-> log, returned |-> TRUE]

\* An index out of range ends the process: the callback does not return.
Panicked == [code |-> 0, log |-> "index out of range", returned |-> FALSE]

\* A faulty variant: the snapshot of the last block is not a copy, it is
\* the live map, so it takes the new ticket too.
Accept_SharesSnapshot(st, ticketTx, previousTicket) ==
    LET new == [TicketTx |-> ticketTx,
                ChangeHeights |-> Append(previousTicket.ChangeHeights, st.height + 1)]
    IN [st EXCEPT
        !.size = st.size + 1,
        !.tickets = Put(st.tickets, ticketTx.Id, new),
        !.history = IF st.height \in DOMAIN st.history
                    THEN [st.history EXCEPT
                            ![st.height].tickets = Put(@, ticketTx.Id, new)]
                    ELSE st.history,
        !.tempTreeContent = Append(st.tempTreeContent, ticketTx)]

\* A faulty variant: the change is recorded one block too far ahead.
Accept_TwoAhead(st, ticketTx, previousTicket) ==
    [st EXCEPT
        !.size = st.size + 1,
        !.tickets = Put(st.tickets, ticketTx.Id,
                        [TicketTx |-> ticketTx,
                         ChangeHeights |-> Append(previousTicket.ChangeHeights,
                                                  st.height + 2)]),
        !.tempTreeContent = Append(st.tempTreeContent, ticketTx)]

\* The state DeliverTx leaves when it has accepted ticketTx.
Accept(st, ticketTx, previousTicket) ==
    [st EXCEPT
        !.size = st.size + 1,
        !.tickets = Put(st.tickets, ticketTx.Id,
                        [TicketTx |-> ticketTx,
                         ChangeHeights |-> Append(previousTicket.ChangeHeights,
                                                  st.height + 1)]),
        !.tempTreeContent = Append(st.tempTreeContent, ticketTx)]

\* A faulty variant: the transaction is counted before it is validated.
DeliverTxStep_CountsFirst(st, w) ==
    LET u == Unmarshal(w)
        previousTicket == Lookup(st.tickets, u.ticketTx.Id, ZeroTicket)
        v == validate(u.ticketTx, previousTicket.TicketTx)
        counted == [st EXCEPT !.size = st.size + 1]
    IN IF u.err # ErrNone
       THEN [state |-> st, resp |-> Response(codeTypeEncodingError, u.err)]
       ELSE IF v.panic
       THEN [state |-> st, resp |-> Panicked]
       ELSE IF v.err # ErrNone
       THEN [state |-> counted, resp |-> Response(codeTypeTicketError, v.err)]
       ELSE [state |-> Accept(st, u.ticketTx, previousTicket),
             resp |-> Response(codeTypeOK, ErrNone)]

DeliverTxStep(st, w) ==
    LET u == Unmarshal(w)
        previousTicket == Lookup(st.tickets, u.ticketTx.Id, ZeroTicket)
        v == validate(u.ticketTx, previousTicket.TicketTx)
    IN IF u.err # ErrNone
       THEN [state |-> st, resp |-> Response(codeTypeEncodingError, u.err)]
       ELSE IF v.panic
       THEN [state |-> st, resp |-> Panicked]
       ELSE IF v.err # ErrNone
       THEN [state |-> st, resp |-> Response(codeTypeTicketError, v.err)]
       ELSE [state |-> Accept(st, u.ticketTx, previousTicket),
             resp |-> Response(codeTypeOK, ErrNone)]

CheckTxStep(st, w) ==
    LET u == Unmarshal(w)
        previousTicket == Lookup(st.tickets, u.ticketTx.Id, ZeroTicket)
        v == validate(u.ticketTx, previousTicket.TicketTx)
    IN IF u.err # ErrNone
       THEN Response(codeTypeEncodingError, u.err)
       ELSE IF v.panic
       THEN Panicked
       ELSE IF v.err # ErrNone
       THEN Response(codeTypeTicketError, v.err)
       ELSE Response(codeTypeOK, ErrNone)

\* The copy loop of Commit: `order` is the order in which range walks the
\* keys of the tickets map, which Go leaves unspecified.
RECURSIVE CopyTickets(_, _, _)
CopyTickets(tickets, order, ticketsSnapshot) ==
    IF order = << >> THEN ticketsSnapshot
    ELSE CopyTickets(tickets, Tail(order),
                     Put(ticketsSnapshot, Head(order), tickets[Head(order)]))

KeyOrders(m) ==
    {o \in [1..Cardinality(DOMAIN m) -> DOMAIN m] :
        \A i, j \in DOMAIN o : i # j => o[i] # o[j]}

\* A faulty variant: a snapshot is stored for an empty block too.
CommitStep_AlwaysSnapshots(st, order) ==
    LET height == st.height + 1
        tree == IF Len(st.tempTreeContent) > 0 THEN NewTree(st.tempTreeContent)
                ELSE [Leafs |-> << >>, Root |-> st.rootHash]
        ticketsSnapshot == CopyTickets(st.tickets, order, << >>)
    IN [state |->
           [st EXCEPT
               !.height = height,
               !.rootHash = tree.Root,
               !.history = Put(st.history, height,
                               [tickets |-> ticketsSnapshot, tree |-> tree]),
               !.tempTreeContent = << >>],
        data |-> tree.Root]

\* A faulty variant: the staging buffer is not cleared.
CommitStep_KeepsStaging(st, order) ==
    LET height == st.height + 1 IN
    IF Len(st.tempTreeContent) > 0
    THEN LET tree == NewTree(st.tempTreeContent)
             ticketsSnapshot == CopyTickets(st.tickets, order, << >>)
         IN [state |->
                [st EXCEPT
                    !.height = height,
                    !.rootHash = tree.Root,
                    !.history = Put(st.history, height,
                                    [tickets |-> ticketsSnapshot, tree |-> tree])],
             data |-> tree.Root]
    ELSE [state |-> [st EXCEPT !.height = height], data |-> st.rootHash]

\* A faulty variant: the tree is built over the tickets as the map yields
\* them, not over the staging buffer.
CommitStep_TreeOverMap(st, order) ==
    LET height == st.height + 1 IN
    IF Len(st.tempTreeContent) > 0
    THEN LET tree == NewTree([i \in DOMAIN order |-> st.tickets[order[i]].TicketTx])
             ticketsSnapshot == CopyTickets(st.tickets, order, << >>)
         IN [state |->
                [st EXCEPT
                    !.height = height,
                    !.rootHash = tree.Root,
                    !.history = Put(st.history, height,
                                    [tickets |-> ticketsSnapshot, tree |-> tree]),
                    !.tempTreeContent = << >>],
             data |-> tree.Root]
    ELSE [state |-> [st EXCEPT !.height = height], data |-> st.rootHash]

CommitStep(st, order) ==
    LET height == st.height + 1 IN
    IF Len(st.tempTreeContent) > 0
    THEN LET tree == NewTree(st.tempTreeContent)
             ticketsSnapshot == CopyTickets(st.tickets, order, << >>)
         IN [state |->
                [st EXCEPT
                    !.height = height,
                    !.rootHash = tree.Root,
                    !.history = Put(st.history, height,
                                    [tickets |-> ticketsSnapshot, tree |-> tree]),
                    !.tempTreeContent = << >>],
             data |-> tree.Root]
    ELSE [state |-> [st EXCEPT !.height = height], data |-> st.rootHash]

InfoResponse(st) ==
    [hashes |-> st.height, tickets |-> st.size,
     LastBlockHeight |-> st.height, LastBlockAppHash |-> st.rootHash]

(***************************************************************************)
(* The historical ticket query.  The query data is the list of parameters  *)
(* strings.Split(queryData, ":") yields: each a decimal number or not.     *)
(***************************************************************************)
Num(n) == [num |-> TRUE, n |-> n]
NotANumber == [num |-> FALSE, n |-> 0]

\* strconv.ParseUint(s, 10, 64) and strconv.ParseInt(s, 10, 64)
ParseUint(p) == IF p.num /\ p.n >= 0 THEN [n |-> p.n, err |-> ErrNone]
                                     ELSE [n |-> 0, err |-> ErrParse]
ParseInt(p) == IF p.num THEN [n |-> p.n, err |-> ErrNone]
                        ELSE [n |-> 0, err |-> ErrParse]

parseTicketQuery(params, currentHeight) ==
    LET id == ParseUint(params[1]) IN
    IF id.err # ErrNone
    THEN [ticketId |-> id.n, height |-> 0, err |-> id.err]
    ELSE IF Len(params) = 1
    THEN [ticketId |-> id.n, height |-> currentHeight, err |-> ErrNone]
    ELSE LET h == ParseInt(params[2]) IN
         [ticketId |-> id.n, height |-> h.n, err |-> h.err]

RECURSIVE LastChangeFrom(_, _, _)
LastChangeFrom(changeHeights, i, height) ==
    IF i < 1 THEN [height |-> 0, err |-> ErrTicketNotFound]
    ELSE IF changeHeights[i] <= height
    THEN [height |-> changeHeights[i], err |-> ErrNone]
    ELSE LastChangeFrom(changeHeights, i - 1, height)

\* A faulty variant: the scan yields the first change, not the last one.
findLastChangeBeforeHeight_First(ticket, height) ==
    IF Len(ticket.ChangeHeights) > 0 /\ ticket.ChangeHeights[1] <= height
    THEN [height |-> ticket.ChangeHeights[1], err |-> ErrNone]
    ELSE [height |-> 0, err |-> ErrTicketNotFound]

\* A faulty variant: when no change is <= height, the first change is given.
findLastChangeBeforeHeight_Nearest(ticket, height) ==
    LET r == LastChangeFrom(ticket.ChangeHeights, Len(ticket.ChangeHeights), height) IN
    IF r.err # ErrNone /\ Len(ticket.ChangeHeights) > 0
    THEN [height |-> ticket.ChangeHeights[1], err |-> ErrNone]
    ELSE r

findLastChangeBeforeHeight(ticket, height) ==
    LastChangeFrom(ticket.ChangeHeights, Len(ticket.ChangeHeights), height)

\* hexutil.Encode: the bytes in hex behind a 0x prefix.
HexEncode(b) == [prefix |-> "0x", hex |-> b]

findTicketAtHeight(st, params) ==
    LET q == parseTicketQuery(params, st.height) IN
    IF q.err # ErrNone
    THEN [ticket |-> ZeroTicket, merkleProof |-> << >>, err |-> q.err]
    ELSE
    LET lastTicketChange ==
            findLastChangeBeforeHeight(Lookup(st.tickets, q.ticketId, ZeroTicket), q.height)
    IN
    IF lastTicketChange.err # ErrNone
    THEN [ticket |-> ZeroTicket, merkleProof |-> << >>, err |-> lastTicketChange.err]
    ELSE
    LET snapshot == Lookup(st.history, lastTicketChange.height, ZeroSnapshot)
        ticket == Lookup(snapshot.tickets, q.ticketId, ZeroTicket)
        mp == GetMerklePath(snapshot.tree, ticket.TicketTx)
    IN [ticket |-> ticket,
        merkleProof |-> [i \in 1..Len(mp.path) |-> HexEncode(mp.path[i])],
        err |-> mp.err]

\* The JSON object Query marshals for a ticket that was found.
TicketReposnse(ticket, merkleProof) ==
    [ticket |-> ticket, merkleProof |-> merkleProof]

QueryValue(st, params) ==
    LET r == findTicketAtHeight(st, params) IN
    TicketReposnse(r.ticket, r.merkleProof)

\* The response of Query: Value holds the JSON of TicketReposnse, or the
\* decimal height or size; empty is true of a response without a Value.
QueryStep(st, path, params) ==
    IF path = "hash"
    THEN [empty |-> FALSE, number |-> st.height, ticket |-> ZeroTicket,
          merkleProof |-> << >>, log |-> ""]
    ELSE IF path = "tx"
    THEN [empty |-> FALSE, number |-> st.size, ticket |-> ZeroTicket,
          merkleProof |-> << >>, log |-> ""]
    ELSE IF path = "ticket"
    THEN LET r == findTicketAtHeight(st, params) IN
         IF r.err # ErrNone
         THEN [empty |-> TRUE, number |-> 0, ticket |-> ZeroTicket,
               merkleProof |-> << >>, log |-> "is not a valid ticket id"]
         ELSE [empty |-> FALSE, number |-> 0, ticket |-> r.ticket,
               merkleProof |-> r.merkleProof, log |-> ""]
    ELSE [empty |-> TRUE, number |-> 0, ticket |-> ZeroTicket,
          merkleProof |-> << >>, log |-> "Invalid query path"]

(***************************************************************************)
(* Inputs.                                                                 *)
(***************************************************************************)
\* The ticket states that have been on record, live or in a snapshot:
\* the digests somebody may have signed.
RecordedTickets(st) ==
    {st.tickets[id].TicketTx : id \in DOMAIN st.tickets}
        \cup UNION {{st.history[h].tickets[id].TicketTx : id \in DOMAIN st.history[h].tickets} :
                        h \in DOMAIN st.history}

\* The proof the owner on record makes for a successor of the ticket of id:
\* a signature over the ticket's hash, and "0x" when there is no owner.
HonestProof(st, id) ==
    LET prev == Lookup(st.tickets, id, ZeroTicket).TicketTx IN
    IF AddrBytes(prev.OwnerAddr) \in Keys
    THEN Sign(AddrBytes(prev.OwnerAddr), CalculateHash(prev))
    ELSE Proof0x

\* Other proofs: strings that are no signature, signatures by either key
\* over any recorded ticket (of this id or another, current or past), and
\* the honest signature with a v byte outside the Ethereum convention (the
\* bare recovery id, or the other of 27 and 28).
Proofs(st, id) ==
    LET h == HonestProof(st, id) IN
    {EmptyProof, Proof0x, BadHexProof, LongProof, ForgedProof}
        \cup {Sign(k, CalculateHash(t)) : k \in Keys, t \in RecordedTickets(st)}
        \cup (IF h.signer \in Keys
              THEN {SigProof(h.signer, h.v - 27, h.msg), SigProof(h.signer, 55 - h.v, h.msg)}
              ELSE {})

NextNonce(st, id) ==
    LET n == Lookup(st.tickets, id, ZeroTicket).TicketTx.Nonce IN
    IF n < MaxNonce THEN n + 1 ELSE MaxNonce

\* An owner other than the one on record.
NewOwner(st, id) ==
    IF AddrBytes(Lookup(st.tickets, id, ZeroTicket).TicketTx.OwnerAddr) = 1
    THEN "0xB2" ELSE "0xa1"

\* Transactions: every id, nonce and owner with the honest proof; the next
\* nonce of every id with every other proof; transactions with several
\* faults; and every transaction that is or was on record, once more.
TxInputs(st) ==
    {Tx(id, nonce, owner, HonestProof(st, id)) :
        id \in Ids, nonce \in 0..MaxNonce, owner \in Owners}
    \cup UNION {{Tx(id, NextNonce(st, id), NewOwner(st, id), proof) :
                    proof \in Proofs(st, id)} : id \in Ids}
    \cup {Tx(id, nonce, "", BadHexProof) : id \in Ids, nonce \in {0, MaxNonce}}
    \cup {Tx(id, 0, "0xa1", BadHexProof) : id \in Ids}
    \cup RecordedTickets(st)

\* What arrives at CheckTx.
WireInputs(st) ==
    {Malformed} \cup {Wire(tx, {}) : tx \in TxInputs(st)}
        \cup {Wire(Tx(1, NextNonce(st, 1), NewOwner(st, 1), HonestProof(st, 1)), {f}) :
                f \in FieldNames}

\* What a block holds: as above, but a transaction with a fresh nonce and an
\* owner is one of an orderly sale: an originating transaction (one for an
\* id without a ticket) carries the proof "0x", the owner is the new owner,
\* and the nonce skips at most one value.
BlockInputs(st) ==
    {w \in WireInputs(st) :
        LET tx == Unmarshal(w).ticketTx
            prev == Lookup(st.tickets, tx.Id, ZeroTicket).TicketTx
        IN
        w.malformed \/ tx.OwnerAddr = "" \/ tx.Nonce <= prev.Nonce
            \/ /\ tx.OwnerAddr = NewOwner(st, tx.Id)
               /\ tx.Id \in DOMAIN st.tickets \/ tx.PrevOwnerProof = Proof0x
               /\ tx.Nonce <= prev.Nonce + 2}

QueryInputs ==
    {<<Num(id)>> : id \in Ids \cup {-1, 2}}
        \cup {<<Num(id), Num(h)>> : id \in Ids, h \in (-1)..(MaxHeight + 1)}
        \cup {<<NotANumber>>, <<Num(1), NotANumber>>, <<Num(1), Num(1), Num(0)>>}

(***************************************************************************)
(* The state machine.  last is the response of the latest callback;        *)
(* delivered lists the accepted transactions with the block (the height    *)
(* its Commit reaches) each was delivered in; replica is a second instance *)
(* that is fed the same blocks; writer is the position of the callback of  *)
(* the consensus connection, for the runs in which the query connection   *)
(* is served while it is under way.                                        *)
(***************************************************************************)
\* empty: the response carries no value (Query) or no data (Commit, Info);
\* data: the app hash Commit returns.
Last(op, code, returned, empty, data) ==
    [op |-> op, code |-> code, returned |-> returned, empty |-> empty, data |-> data]

\* The callback of the consensus connection that is under way, if any, and
\* the transaction it was given.
Idle == [at |-> "idle", w |-> Malformed]

Init ==
    /\ state = NewTicketStoreApplication
    /\ last = Last("New", codeTypeOK, TRUE, TRUE, << >>)
    /\ delivered = << >>
    /\ replica = [state |-> NewTicketStoreApplication, data |-> << >>]
    /\ writer = Idle

\* The process is up: no callback has panicked.
Running == last.returned

Accepted(resp) == resp.returned /\ resp.code = codeTypeOK

DeliverTx(w) ==
    LET r == DeliverTxStep(state, w) IN
    /\ Running
    /\ Accepted(r.resp) => state.size < MaxSize
    /\ state' = r.state
    /\ last' = Last("DeliverTx", r.resp.code, r.resp.returned, TRUE, << >>)
    /\ delivered' = IF Accepted(r.resp)
                    THEN Append(delivered, [tx |-> Unmarshal(w).ticketTx,
                                            block |-> state.height + 1])
                    ELSE delivered
    /\ UNCHANGED <<replica, writer>>

\* A faulty variant: CheckTx does what DeliverTx does.
CheckTx_Delivers(w) ==
    LET r == CheckTxStep(state, w) IN
    /\ Running
    /\ last' = Last("CheckTx", r.code, r.returned, TRUE, << >>)
    /\ state' = DeliverTxStep(state, w).state
    /\ UNCHANGED <<delivered, replica, writer>>

CheckTx(w) ==
    LET r == CheckTxStep(state, w) IN
    /\ Running
    /\ last' = Last("CheckTx", r.code, r.returned, TRUE, << >>)
    /\ UNCHANGED <<state, delivered, replica, writer>>

Commit ==
    /\ Running
    /\ state.height < MaxHeight
    /\ \E order \in KeyOrders(state.tickets) :
          LET r == CommitStep(state, order) IN
          /\ state' = r.state
          /\ last' = Last("Commit", codeTypeOK, TRUE, r.data = << >>, r.data)
    /\ UNCHANGED <<delivered, replica, writer>>

Query(path, params) ==
    LET r == QueryStep(state, path, params) IN
    /\ Running
    /\ last' = Last("Query", codeTypeOK, TRUE, r.empty, << >>)
    /\ UNCHANGED <<state, delivered, replica, writer>>

Info ==
    /\ Running
    /\ last' = Last("Info", codeTypeOK, TRUE, InfoResponse(state).LastBlockAppHash = << >>, << >>)
    /\ UNCHANGED <<state, delivered, replica, writer>>

\* The consensus and mempool connections: the transaction path.
Next ==
    \/ \E w \in BlockInputs(state) : DeliverTx(w)
    \/ \E w \in WireInputs(state) : CheckTx(w)
    \/ Commit

Spec == Init /\ [][Next]_vars

\* The consensus and query connections.  (CheckTx, Query and Info leave the
\* state as it is, so the read connections are taken one at a time.)
NextQuery ==
    \/ \E w \in BlockInputs(state) : DeliverTx(w)
    \/ Commit
    \/ \E params \in QueryInputs : Query("ticket", params)
    \/ \E path \in {"hash", "tx", "other"} : Query(path, << >>)
    \/ Info

SpecQuery == Init /\ [][NextQuery]_vars

\* Two instances fed the same blocks: each Commit walks its tickets map in
\* an order of its own.
ReplayDeliverTx(w) ==
    LET r == DeliverTxStep(state, w)
        r2 == DeliverTxStep(replica.state, w)
    IN
    /\ Running
    /\ Accepted(r.resp) => state.size < MaxSize
    /\ state' = r.state
    /\ last' = Last("DeliverTx", r.resp.code, r.resp.returned, TRUE, << >>)
    /\ delivered' = IF Accepted(r.resp)
                    THEN Append(delivered, [tx |-> Unmarshal(w).ticketTx,
                                            block |-> state.height + 1])
                    ELSE delivered
    /\ replica' = [state |-> r2.state, data |-> replica.data]
    /\ UNCHANGED writer

ReplayCommit ==
    /\ Running
    /\ state.height < MaxHeight
    /\ \E order \in KeyOrders(state.tickets), order2 \in KeyOrders(replica.state.tickets) :
          LET r == CommitStep(state, order)
              r2 == CommitStep(replica.state, order2)
          IN
          /\ state' = r.state
          /\ last' = Last("Commit", codeTypeOK, TRUE, r.data = << >>, r.data)
          /\ replica' = [state |-> r2.state, data |-> r2.data]
    /\ UNCHANGED <<delivered, writer>>

NextReplay ==
    \/ \E w \in BlockInputs(state) : ReplayDeliverTx(w)
    \/ ReplayCommit

SpecReplay == Init /\ [][NextReplay]_vars

\* The application takes no lock: when the connections are served by
\* threads of their own, Query and Info run between the writes of a
\* DeliverTx or a Commit.  DeliverTx up to its first write, size++ ...
BeginDeliverTx(w) ==
    LET r == DeliverTxStep(state, w) IN
    /\ Running /\ writer = Idle
    /\ Accepted(r.resp) => state.size < MaxSize
    /\ IF Accepted(r.resp)
       THEN /\ state' = [state EXCEPT !.size = state.size + 1]
            /\ writer' = [at |-> "DeliverTx", w |-> w]
            /\ UNCHANGED last
       ELSE /\ state' = r.state
            /\ last' = Last("DeliverTx", r.resp.code, r.resp.returned, TRUE, << >>)
            /\ UNCHANGED writer
    /\ UNCHANGED <<delivered, replica>>

\* ... and its writes to tickets and to the staging buffer.
EndDeliverTx ==
    LET ticketTx == Unmarshal(writer.w).ticketTx
        previousTicket == Lookup(state.tickets, ticketTx.Id, ZeroTicket)
    IN
    /\ Running /\ writer.at = "DeliverTx"
    /\ state' = [state EXCEPT
                    !.tickets = Put(state.tickets, ticketTx.Id,
                                    [TicketTx |-> ticketTx,
                                     ChangeHeights |-> Append(previousTicket.ChangeHeights,
                                                              state.height + 1)]),
                    !.tempTreeContent = Append(state.tempTreeContent, ticketTx)]
    /\ last' = Last("DeliverTx", codeTypeOK, TRUE, TRUE, << >>)
    /\ delivered' = Append(delivered, [tx |-> ticketTx, block |-> state.height + 1])
    /\ writer' = Idle
    /\ UNCHANGED replica

\* Commit up to its first write, height++ ...
BeginCommit ==
    /\ Running /\ writer = Idle
    /\ state.height < MaxHeight
    /\ state' = [state EXCEPT !.height = state.height + 1]
    /\ IF Len(state.tempTreeContent) > 0
       THEN /\ writer' = [at |-> "Commit", w |-> Malformed]
            /\ UNCHANGED last
       ELSE /\ last' = Last("Commit", codeTypeOK, TRUE, state.rootHash = << >>, state.rootHash)
            /\ UNCHANGED writer
    /\ UNCHANGED <<delivered, replica>>

\* ... and its writes to rootHash, history and the staging buffer.
EndCommit ==
    /\ Running /\ writer.at = "Commit"
    /\ \E order \in KeyOrders(state.tickets) :
          LET tree == NewTree(state.tempTreeContent)
              ticketsSnapshot == CopyTickets(state.tickets, order, << >>)
          IN
          /\ state' = [state EXCEPT
                          !.rootHash = tree.Root,
                          !.history = Put(state.history, state.height,
                                          [tickets |-> ticketsSnapshot, tree |-> tree]),
                          !.tempTreeContent = << >>]
          /\ last' = Last("Commit", codeTypeOK, TRUE, FALSE, tree.Root)
    /\ writer' = Idle
    /\ UNCHANGED <<delivered, replica>>

NextConcurrent ==
    \/ \E w \in BlockInputs(state) : BeginDeliverTx(w)
    \/ EndDeliverTx
    \/ BeginCommit
    \/ EndCommit
    \/ \E params \in QueryInputs : Query("ticket", params)
    \/ \E path \in {"hash", "tx"} : Query(path, << >>)
    \/ Info

SpecConcurrent == Init /\ [][NextConcurrent]_vars

(***************************************************************************)
(* Helpers of the properties: what the log of accepted transactions says.  *)
(***************************************************************************)
StrictlyIncreasing(q) == \A i \in 1..(Len(q) - 1) : q[i] < q[i + 1]

NonDecreasing(q) == \A i \in 1..(Len(q) - 1) : q[i] <= q[i + 1]

\* The positions in delivered of the accepted transactions of an id.
DeliveredOf(id) == {i \in 1..Len(delivered) : delivered[i].tx.Id = id}

(***************************************************************************)
(* C1: for every ticket in the live tickets map, changeHeights is strictly *)
(* increasing, also when several transactions of one id are accepted in    *)
(* the same block.                                                         *)
(***************************************************************************)
C1_ChangeHeightsStrictlyIncreasing ==
    \A id \in DOMAIN state.tickets : StrictlyIncreasing(state.tickets[id].ChangeHeights)

(***************************************************************************)
(* C2: for every id and every height h <= the current height at or before  *)
(* which the ticket changed, the ticket query succeeds, returns the ticket *)
(* with the greatest nonce accepted for the id in blocks committed at      *)
(* heights <= h, and returns as proof the inclusion path of that ticket in *)
(* the tree of history[h*], h* the largest change height <= h.             *)
(***************************************************************************)
Max(S) == CHOOSE x \in S : \A y \in S : y <= x

\* The change heights of the ticket of id that are <= h.
ChangesUpTo(id, h) ==
    LET ch == Lookup(state.tickets, id, ZeroTicket).ChangeHeights IN
    {ch[i] : i \in {j \in 1..Len(ch) : ch[j] <= h}}

\* The nonces accepted for id in blocks committed at heights <= h.
NoncesUpTo(id, h) ==
    {delivered[i].tx.Nonce : i \in {j \in DeliveredOf(id) : delivered[j].block <= h}}

\* What a verifier computes from a leaf hash, the sibling hashes and the
\* position of the leaf (counted from 0) in its level.
RECURSIVE RootFromPath(_, _, _)
RootFromPath(hash, path, pos) ==
    IF path = << >> THEN hash
    ELSE RootFromPath(IF pos % 2 = 0 THEN HashPair(hash, Head(path))
                                     ELSE HashPair(Head(path), hash),
                      Tail(path), pos \div 2)

\* The number of levels below the root of a tree of n > 1 leaves.
RECURSIVE Levels(_)
Levels(n) == IF n <= 2 THEN 1 ELSE 1 + Levels((n + 1) \div 2)

IsInclusionPath(merkleProof, content, tree) ==
    \E i \in 1..Len(tree.Leafs) :
        /\ tree.Leafs[i].C = content
        /\ Len(merkleProof) = Levels(Len(tree.Leafs))
        /\ \A k \in 1..Len(merkleProof) : merkleProof[k].prefix = "0x"
        /\ RootFromPath(CalculateHash(content),
                        [k \in 1..Len(merkleProof) |-> merkleProof[k].hex], i - 1)
             = tree.Root

C2_Case(id, h) == h <= state.height /\ ChangesUpTo(id, h) # {}

C2_Holds(id, h) ==
    LET r == findTicketAtHeight(state, <<Num(id), Num(h)>>)
        hstar == Max(ChangesUpTo(id, h))
    IN /\ r.err = ErrNone
       /\ ~QueryStep(state, "ticket", <<Num(id), Num(h)>>).empty
       /\ QueryStep(state, "ticket", <<Num(id), Num(h)>>).ticket = r.ticket
       /\ r.ticket.TicketTx.Id = id
       /\ r.ticket.TicketTx.Nonce = Max(NoncesUpTo(id, h))
       /\ hstar \in DOMAIN state.history
       /\ IsInclusionPath(r.merkleProof, r.ticket.TicketTx, state.history[hstar].tree)

C2_HistoricalQuery ==
    \A id \in Ids, h \in 0..MaxHeight : C2_Case(id, h) => C2_Holds(id, h)

\* A query above the height of the last change, answered from a tree of two
\* levels with the ticket of the second accepted transaction of its id.
C2_Witness ==
    /\ last.op = "Query" /\ ~last.empty
    /\ \E id \in Ids, h \in 0..MaxHeight :
          /\ C2_Case(id, h)
          /\ Max(ChangesUpTo(id, h)) < h
          /\ Len(findTicketAtHeight(state, <<Num(id), Num(h)>>).merkleProof) = 2
          /\ findTicketAtHeight(state, <<Num(id), Num(h)>>).ticket.TicketTx.Nonce > 1

(***************************************************************************)
(* C3: a transaction for an id with a recorded owner is accepted, by       *)
(* DeliverTx and by CheckTx, only if its prevOwnerProof is a signature by  *)
(* that owner over the hash of the ticket now on record for the id.        *)
(***************************************************************************)
IsOwnerSignature(proof, prev) ==
    /\ proof.enc = "hex" /\ proof.n = 65
    /\ proof.signer \in Keys
    /\ ToLower(AddrHex(proof.signer)) = ToLower(prev.OwnerAddr)
    /\ proof.msg = CalculateHash(prev)

\* The accepted transaction of the same id before the i-th one, if any.
Earlier(i) == {j \in DeliveredOf(delivered[i].tx.Id) : j < i}

C3_OnlyOwnerSignature ==
    /\ \A w \in WireInputs(state) :
          LET tx == Unmarshal(w).ticketTx
              prev == Lookup(state.tickets, tx.Id, ZeroTicket).TicketTx
          IN (/\ prev.OwnerAddr # ""
              /\ Accepted(CheckTxStep(state, w)) \/ Accepted(DeliverTxStep(state, w).resp))
                => IsOwnerSignature(tx.PrevOwnerProof, prev)
    /\ \A i \in 1..Len(delivered) :
          Earlier(i) # {} =>
            IsOwnerSignature(delivered[i].tx.PrevOwnerProof, delivered[Max(Earlier(i))].tx)

\* A resale has been accepted, and a successor that carries the signature
\* the first owner made over the first state of the ticket is turned down
\* for its signature.
C3_Witness ==
    /\ last.op = "DeliverTx" /\ last.code = codeTypeTicketError
    /\ \E i \in 1..Len(delivered) :
          /\ Earlier(i) # {}
          /\ \E w \in BlockInputs(state) :
                LET tx == Unmarshal(w).ticketTx
                    prev == Lookup(state.tickets, tx.Id, ZeroTicket).TicketTx
                IN /\ tx.Id = delivered[i].tx.Id
                   /\ tx.Nonce > prev.Nonce /\ tx.OwnerAddr # ""
                   /\ tx.PrevOwnerProof = delivered[i].tx.PrevOwnerProof
                   /\ DeliverTxStep(state, w).resp
                        = Response(codeTypeTicketError, ErrBadSignature)

(***************************************************************************)
(* C4: for a ticket T on record whose owner has a key, every successor T'  *)
(* of the same id with a greater nonce whose prevOwnerProof is the owner's *)
(* 65 byte signature of CalculateHash(T) is accepted by CheckTx and by     *)
(* DeliverTx.  As claimed: whatever the ownerAddr of T'.  As amended: when *)
(* the ownerAddr of T' is not empty.                                       *)
(***************************************************************************)
C4_Accepts(owners) ==
    \A id \in DOMAIN state.tickets :
        LET T == state.tickets[id].TicketTx
            k == AddrBytes(T.OwnerAddr)
        IN k \in Keys =>
            \A nonce \in (T.Nonce + 1)..MaxNonce, owner \in owners :
                LET w == Wire(Tx(id, nonce, owner, Sign(k, CalculateHash(T))), {}) IN
                /\ CheckTxStep(state, w) = Response(codeTypeOK, ErrNone)
                /\ DeliverTxStep(state, w).resp = Response(codeTypeOK, ErrNone)

C4_AnySuccessorAccepted == C4_Accepts(Owners)

C4_SuccessorWithOwnerAccepted == C4_Accepts(Owners \ {""})

\* A resale carrying the owner's signature has just been accepted; the
\* ticket is now on record for an address written in mixed case and can be
\* sold on.
C4_Witness ==
    /\ last.op = "DeliverTx" /\ Accepted(last)
    /\ \E i \in 1..Len(delivered) :
          /\ i = Len(delivered)
          /\ Earlier(i) # {}
          /\ delivered[i].tx.PrevOwnerProof
                = Sign(AddrBytes(delivered[Max(Earlier(i))].tx.OwnerAddr),
                       CalculateHash(delivered[Max(Earlier(i))].tx))
          /\ delivered[i].tx.OwnerAddr = "0xB2"
          /\ delivered[i].tx.Nonce < MaxNonce

(***************************************************************************)
(* C5: for every id the accepted nonces are strictly increasing, the       *)
(* ticket on record carries the latest of them, and delivering again a     *)
(* transaction that was accepted is rejected with BadNonce and changes     *)
(* nothing.                                                                *)
(***************************************************************************)
C5_NoncesIncreaseNoReplay ==
    /\ \A i \in 1..Len(delivered) :
          /\ Earlier(i) # {} => delivered[Max(Earlier(i))].tx.Nonce < delivered[i].tx.Nonce
          /\ LET r == DeliverTxStep(state, Wire(delivered[i].tx, {})) IN
             /\ r.resp = Response(codeTypeTicketError, ErrBadNonce)
             /\ r.state = state
    /\ \A id \in Ids :
          /\ id \in DOMAIN state.tickets <=> DeliveredOf(id) # {}
          /\ DeliveredOf(id) # {} =>
                state.tickets[id].TicketTx = delivered[Max(DeliveredOf(id))].tx

\* A rejection by DeliverTx in a block after the one in which an id had two
\* transactions accepted.
C5_Witness ==
    /\ last.op = "DeliverTx" /\ last.code = codeTypeTicketError
    /\ \E i \in 1..Len(delivered) :
          Earlier(i) # {} /\ delivered[i].block <= state.height

(***************************************************************************)
(* C6: a DeliverTx that returns a code other than 0 leaves size, height,   *)
(* rootHash, tickets, history and the staging buffer as they were: no      *)
(* input can make it do otherwise, and no step has done otherwise.         *)
(***************************************************************************)
RejectedLeavesState ==
    \A w \in WireInputs(state) :
        LET r == DeliverTxStep(state, w) IN
        (r.resp.returned /\ r.resp.code # codeTypeOK) => r.state = state

C6_RejectionChangesNothing ==
    /\ []RejectedLeavesState
    /\ [][(last'.op = "DeliverTx" /\ last'.returned /\ last'.code # codeTypeOK)
            => state' = state]_vars

\* DeliverTx has just returned EncodingError to an application that holds
\* tickets, a committed block and a staged transaction.
C6_Witness ==
    /\ last.op = "DeliverTx" /\ last.returned
    /\ last.code = codeTypeEncodingError
    /\ state.size > 1 /\ state.height > 0
    /\ state.history # << >> /\ state.tempTreeContent # << >>

(***************************************************************************)
(* C7: every CheckTx and every DeliverTx returns, with code 0, 1 or 2,     *)
(* whatever the input and the state; a resale whose prevOwnerProof decodes *)
(* to fewer than 65 bytes is among them.                                   *)
(***************************************************************************)
C7_AlwaysReturnsACode ==
    /\ last.op \in {"CheckTx", "DeliverTx"} =>
          last.returned /\ last.code \in {codeTypeOK, codeTypeEncodingError, codeTypeTicketError}
    /\ \A w \in WireInputs(state) :
          /\ CheckTxStep(state, w).returned
          /\ DeliverTxStep(state, w).resp.returned

(***************************************************************************)
(* C8: CheckTx and DeliverTx answer with code 1 every transaction whose    *)
(* JSON is malformed, that lacks one of id, nonce, details and ownerAddr,  *)
(* or whose ownerAddr or prevOwnerProof is not valid hex, for an id with   *)
(* or without a ticket on record.                                          *)
(***************************************************************************)
RequiredFields == FieldNames \ {"prevOwnerProof"}

IsEncodingFault(w) ==
    \/ w.malformed
    \/ w.absent \cap RequiredFields # {}
    \/ "ownerAddr" \notin w.absent /\ w.tx.OwnerAddr = "zz"
    \/ "prevOwnerProof" \notin w.absent /\ w.tx.PrevOwnerProof.enc = "badhex"

C8_EncodingFaultsGetCode1 ==
    \A w \in WireInputs(state) :
        IsEncodingFault(w) =>
            /\ CheckTxStep(state, w) = Response(codeTypeEncodingError, CheckTxStep(state, w).log)
            /\ DeliverTxStep(state, w).resp
                 = Response(codeTypeEncodingError, DeliverTxStep(state, w).resp.log)

(***************************************************************************)
(* C9: the hash Commit returns is the rootHash it leaves, which is the     *)
(* root of the tree over the transactions DeliverTx accepted since the     *)
(* Commit before, in the order of their delivery, and the rootHash of      *)
(* before when there are none; so at all times rootHash, which is what     *)
(* Info reports, is the root kept in history under the greatest height,    *)
(* or empty when history is, and the tree kept for a block is the tree     *)
(* over the transactions accepted in that block.                           *)
(***************************************************************************)
\* The transactions accepted in block h, in the order of their delivery.
BlockTxs(h) ==
    LET ds == SelectSeq(delivered, LAMBDA d : d.block = h) IN
    [i \in 1..Len(ds) |-> ds[i].tx]

RootHashIsLatestRoot ==
    /\ state.rootHash = IF DOMAIN state.history = {} THEN << >>
                        ELSE state.history[Max(DOMAIN state.history)].tree.Root
    /\ InfoResponse(state).LastBlockAppHash = state.rootHash
    /\ DOMAIN state.history = {h \in 1..state.height : BlockTxs(h) # << >>}
    /\ \A h \in DOMAIN state.history :
          state.history[h].tree.Root = NewTree(BlockTxs(h)).Root
    /\ state.tempTreeContent = BlockTxs(state.height + 1)

C9_RootHashIsBlockRoot ==
    /\ []RootHashIsLatestRoot
    /\ [][last'.op = "Commit" =>
            /\ last'.data = state'.rootHash
            /\ InfoResponse(state').LastBlockAppHash = last'.data
            /\ state'.rootHash = IF BlockTxs(state.height + 1) = << >>
                                 THEN state.rootHash
                                 ELSE NewTree(BlockTxs(state.height + 1)).Root]_vars

\* The second Commit has just returned the root of a block of two
\* transactions, after a first block that was not empty either.
C9_Witness ==
    /\ last.op = "Commit" /\ state.height = 2
    /\ BlockTxs(1) # << >> /\ Len(BlockTxs(2)) = 2
    /\ last.data = NewTree(BlockTxs(2)).Root
    /\ last.data # state.history[1].tree.Root

(***************************************************************************)
(* C10: two instances started afresh and given the same DeliverTx inputs   *)
(* and the same Commit calls are in the same state after every call and    *)
(* return the same hash from every Commit, whatever order each of them     *)
(* walks its tickets map in: what Commit does is a function of the state   *)
(* before it alone.                                                        *)
(***************************************************************************)
C10_ReplayIsDeterministic ==
    /\ replica.state = state
    /\ last.op = "Commit" => replica.data = last.data
    /\ \A order, order2 \in KeyOrders(state.tickets) :
          CommitStep(state, order) = CommitStep(state, order2)

\* Both instances have committed their second block, with two tickets in
\* the map they copy and a tree in each block.
C10_Witness ==
    /\ last.op = "Commit" /\ state.height = 2
    /\ Cardinality(DOMAIN state.tickets) = 2
    /\ DOMAIN state.history = {1, 2}
    /\ replica.data = state.rootHash /\ replica.data # << >>

(***************************************************************************)
(* C11: CheckTx leaves size, height, rootHash, tickets, history and the    *)
(* staging buffer as they were, whatever the input and whether it answers  *)
(* OK, EncodingError or TicketError; with the state the same, DeliverTx,   *)
(* Commit and Query do afterwards what they would have done without it.    *)
(***************************************************************************)
C11_CheckTxChangesNothing ==
    [][last'.op = "CheckTx" =>
        /\ state' = state
        /\ \A order \in KeyOrders(state.tickets) :
              CommitStep(state', order) = CommitStep(state, order)]_vars

\* CheckTx has just passed a resale that DeliverTx would accept, in a block
\* that already holds a transaction, after a block that was committed.
C11_Witness ==
    /\ last.op = "CheckTx" /\ Accepted(last)
    /\ state.history # << >> /\ state.tempTreeContent # << >>
    /\ state.size < MaxSize
    /\ \E w \in WireInputs(state) :
          /\ Unmarshal(w).ticketTx.Id \in DOMAIN state.tickets
          /\ Accepted(CheckTxStep(state, w))

(***************************************************************************)
(* C12: a ticket query for an id and a height fails, with an empty value   *)
(* and a log, whenever no change height of the ticket is <= the height:    *)
(* the id was never accepted, or was first accepted in a later block.      *)
(* Without a height the committed height is the one used, so a ticket      *)
(* accepted only in the block being built is not found.                    *)
(***************************************************************************)
QueryFails(params) ==
    /\ findTicketAtHeight(state, params).err = ErrTicketNotFound
    /\ QueryStep(state, "ticket", params).empty
    /\ QueryStep(state, "ticket", params).log # ""

C12_NoChangeNotFound ==
    /\ \A id \in Ids \cup {2}, h \in (-1)..(MaxHeight + 1) :
          ChangesUpTo(id, h) = {} => QueryFails(<<Num(id), Num(h)>>)
    /\ \A id \in Ids \cup {2} :
          ChangesUpTo(id, state.height) = {} => QueryFails(<<Num(id)>>)

\* A query has just failed, while one ticket, accepted in the block being
\* built, is not found at the committed height and another, accepted in
\* the second block, is not found at height 1.
C12_Witness ==
    /\ last.op = "Query" /\ last.empty
    /\ state.height > 0
    /\ \E id \in DOMAIN state.tickets :
          /\ state.tickets[id].ChangeHeights = <<state.height + 1>>
          /\ QueryFails(<<Num(id)>>)
    /\ \E id \in DOMAIN state.tickets :
          /\ state.tickets[id].ChangeHeights[1] = 2
          /\ QueryFails(<<Num(id), Num(1)>>)

(***************************************************************************)
(* C13: the value of every successful ticket query holds, with the ticket  *)
(* and merkleProof, a list index of positions 0 or 1, one for each hash of *)
(* merkleProof.                                                            *)
(***************************************************************************)
C13_ResponseCarriesIndex ==
    \A params \in QueryInputs :
        ~QueryStep(state, "ticket", params).empty =>
            LET value == QueryValue(state, params) IN
            /\ "ticket" \in DOMAIN value /\ "merkleProof" \in DOMAIN value
            /\ "index" \in DOMAIN value
            /\ Len(value.index) = Len(value.merkleProof)
            /\ \A i \in 1..Len(value.index) : value.index[i] \in {0, 1}

(***************************************************************************)
(* C14: an id in the live tickets map is in it in every later state, and a *)
(* snapshot Commit has put in history stays there, with the tickets (their *)
(* fields and changeHeights) and the tree it was made with, whatever       *)
(* DeliverTx and Commit do later.                                          *)
(***************************************************************************)
\* The tickets map as it was when block h was committed, from the log of
\* accepted transactions.
TicketsAt(h) ==
    LET ids == {id \in Ids : \E i \in DeliveredOf(id) : delivered[i].block <= h} IN
    [id \in ids |->
        LET upTo == SelectSeq(delivered, LAMBDA d : d.tx.Id = id /\ d.block <= h) IN
        [TicketTx |-> upTo[Len(upTo)].tx,
         ChangeHeights |-> [i \in 1..Len(upTo) |-> upTo[i].block]]]

SnapshotsAreAsTaken ==
    \A h \in DOMAIN state.history :
        /\ h <= state.height
        /\ state.history[h].tickets = TicketsAt(h)
        /\ state.history[h].tree = NewTree(BlockTxs(h))

C14_TicketsAndSnapshotsStay ==
    /\ []SnapshotsAreAsTaken
    /\ [][/\ DOMAIN state.tickets \subseteq DOMAIN state'.tickets
          /\ \A h \in DOMAIN state.history :
                h \in DOMAIN state'.history /\ state'.history[h] = state.history[h]]_vars

\* A ticket that is in the snapshot of block 1 has just been resold in a
\* later block: the live map and the snapshot differ.
C14_Witness ==
    /\ last.op = "DeliverTx" /\ Accepted(last)
    /\ 1 \in DOMAIN state.history
    /\ \E id \in DOMAIN state.history[1].tickets :
          /\ state.tickets[id] # state.history[1].tickets[id]
          /\ state.tickets[id].ChangeHeights = <<1, state.height + 1>>

(***************************************************************************)
(* C15: every change height of every live ticket is <= the height.  As     *)
(* claimed: in every reachable state, those between an accepting DeliverTx *)
(* and the next Commit included.  As amended: <= height + 1 in every       *)
(* state, height + 1 being the change height of just the ids that have a   *)
(* transaction in the staging buffer, and so <= height when the buffer is  *)
(* empty, as it is after every Commit.                                     *)
(***************************************************************************)
ChangeHeightsUpTo(bound) ==
    \A id \in DOMAIN state.tickets :
        \A i \in 1..Len(state.tickets[id].ChangeHeights) :
            state.tickets[id].ChangeHeights[i] <= bound

StagedIds ==
    {state.tempTreeContent[i].Id : i \in 1..Len(state.tempTreeContent)}

C15_ChangeHeightsUpToHeight == ChangeHeightsUpTo(state.height)

C15_ChangeHeightsUpToNextHeight ==
    /\ ChangeHeightsUpTo(state.height + 1)
    /\ \A id \in DOMAIN state.tickets :
          LET ch == state.tickets[id].ChangeHeights IN
          /\ ch # << >>
          /\ ch[Len(ch)] = state.height + 1 <=> id \in StagedIds
    /\ last.op = "Commit" => ChangeHeightsUpTo(state.height)

\* An accepted transaction is in the buffer of the second block, next to a
\* ticket that last changed in the first.
C15_Witness ==
    /\ last.op = "DeliverTx" /\ Accepted(last)
    /\ state.height = 1
    /\ \E id \in DOMAIN state.tickets : id \in StagedIds
    /\ \E id \in DOMAIN state.tickets : id \notin StagedIds

(***************************************************************************)
(* C16: for every live ticket with more than one change height, every      *)
(* change height but the last is a key of history and the snapshot there   *)
(* holds the id, also between DeliverTx and Commit when the id was         *)
(* accepted more than once in the block being built.                       *)
(***************************************************************************)
C16_PriorHeightsHaveSnapshots ==
    \A id \in DOMAIN state.tickets :
        LET ch == state.tickets[id].ChangeHeights IN
        \A i \in 1..(Len(ch) - 1) :
            /\ ch[i] \in DOMAIN state.history
            /\ id \in DOMAIN state.history[ch[i]].tickets

(***************************************************************************)
(* C17: for every h from 1 to the height, history has a snapshot at h      *)
(* exactly when DeliverTx accepted a transaction in the block whose Commit *)
(* made the height h; a Commit with an empty staging buffer adds one to    *)
(* the height and leaves history and rootHash alone.                       *)
(***************************************************************************)
SnapshotIffBlockNotEmpty ==
    /\ DOMAIN state.history \subseteq 1..state.height
    /\ \A h \in 1..state.height :
          h \in DOMAIN state.history <=> \E i \in 1..Len(delivered) : delivered[i].block = h

C17_SnapshotIffAccepted ==
    /\ []SnapshotIffBlockNotEmpty
    /\ [][last'.op = "Commit" =>
            /\ state'.height = state.height + 1
            /\ state.tempTreeContent = << >> =>
                  /\ state'.history = state.history
                  /\ state'.rootHash = state.rootHash
            /\ state.tempTreeContent # << >> =>
                  DOMAIN state'.history = DOMAIN state.history \cup {state'.height}]_vars

\* The second Commit found the buffer empty, after a first block with a
\* transaction in it.
C17_Witness ==
    /\ last.op = "Commit" /\ state.height = 2
    /\ DOMAIN state.history = {1}
    /\ state.rootHash = state.history[1].tree.Root

(***************************************************************************)
(* C18: validate reports the first rule that fails, in the order address,  *)
(* nonce, proof: an empty ownerAddr is BadAddress whatever the nonce and   *)
(* the proof; otherwise a nonce <= the recorded one is BadNonce whatever   *)
(* the proof; the proof is looked at only when the id has a recorded owner,*)
(* so a first transaction for an id passes whatever its prevOwnerProof.    *)
(***************************************************************************)
C18_FirstFailureWins ==
    \A w \in WireInputs(state) :
        ~w.malformed =>
            LET tx == Unmarshal(w).ticketTx
                prev == Lookup(state.tickets, tx.Id, ZeroTicket).TicketTx
                v == validate(tx, prev)
            IN /\ tx.OwnerAddr = "" => v = [err |-> ErrBadAddress, panic |-> FALSE]
               /\ (tx.OwnerAddr # "" /\ tx.Nonce <= prev.Nonce)
                     => v = [err |-> ErrBadNonce, panic |-> FALSE]
               /\ (tx.OwnerAddr # "" /\ tx.Nonce > prev.Nonce /\ prev.OwnerAddr = "")
                     => v = [err |-> ErrNone, panic |-> FALSE]
               /\ v.err \in {ErrBadSignature, ErrHexDecode, ErrSigRecover} \/ v.panic
                     => tx.OwnerAddr # "" /\ tx.Nonce > prev.Nonce /\ prev.OwnerAddr # ""

\* The inputs hold, for a ticket on record, a transaction with no address,
\* a stale nonce and a proof that is no hex, and one with an address, a
\* stale nonce and such a proof; and for an id without a ticket, first
\* transactions with proofs of several kinds.
C18_Witness ==
    /\ last.op \in {"CheckTx", "DeliverTx"}
    /\ last.code = codeTypeTicketError
    /\ \E id \in DOMAIN state.tickets :
          /\ Wire(Tx(id, 0, "", BadHexProof), {}) \in WireInputs(state)
          /\ Wire(Tx(id, 0, "0xa1", BadHexProof), {}) \in WireInputs(state)
    /\ \E id \in Ids \ DOMAIN state.tickets :
          {Wire(Tx(id, 1, "0xa1", proof), {}) :
              proof \in {EmptyProof, Proof0x, BadHexProof, ForgedProof}}
            \subseteq WireInputs(state)

(***************************************************************************)
(* C20: every ticket query that succeeds returns a ticket equal to a       *)
(* transaction DeliverTx accepted for the queried id, which is a leaf of   *)
(* the tree of the snapshot it is answered from, whatever the query data,  *)
(* a height above the committed one included; the zero ticket with an      *)
(* empty proof is never a successful answer.                               *)
(***************************************************************************)
C20_SuccessIsAnAcceptedTicket ==
    \A params \in QueryInputs :
        LET q == parseTicketQuery(params, state.height)
            r == findTicketAtHeight(state, params)
            hstar == findLastChangeBeforeHeight(
                        Lookup(state.tickets, q.ticketId, ZeroTicket), q.height).height
        IN ~QueryStep(state, "ticket", params).empty =>
            /\ r.ticket # ZeroTicket
            /\ \E i \in DeliveredOf(q.ticketId) : delivered[i].tx = r.ticket.TicketTx
            /\ hstar \in DOMAIN state.history
            /\ \E k \in 1..Len(state.history[hstar].tree.Leafs) :
                  state.history[hstar].tree.Leafs[k].C = r.ticket.TicketTx

(***************************************************************************)
(* C19: a Query or an Info served while a DeliverTx or a Commit is under   *)
(* way does not see the state between its writes: the height a Commit has  *)
(* already incremented while rootHash and history are not yet written, or  *)
(* the size a DeliverTx has already incremented while the tickets map is   *)
(* not yet updated.  What it reads is a state in which no callback of the  *)
(* consensus connection is under way: size counts the accepted             *)
(* transactions and the staging buffer holds those of the next block.      *)
(***************************************************************************)
BetweenCallbacks ==
    /\ writer = Idle
    /\ state.size = Len(delivered)
    /\ state.tempTreeContent = BlockTxs(state.height + 1)

C19_ReadersSeeNoIntermediateState ==
    [][(writer' = writer /\ last'.op \in {"Query", "Info"}) => BetweenCallbacks]_vars

====
